---------------------------- MODULE Spec2Model ----------------------------
(***************************************************************************)
(* A model of the recurring-task scheduler (src/src/scheduler.js) and of   *)
(* the task contract (src/unnamed/part_000).                               *)
(*                                                                         *)
(* JavaScript runs the scheduler on one thread: start(), stop() and the    *)
(* synchronous part of the tick handler run to completion, and the tick    *)
(* handler is suspended only at `await task.perform(now, time)`.  Each     *)
(* action below is one such run-to-completion step.                        *)
(***************************************************************************)
EXTENDS Integers, Sequences, FiniteSets, Bags, TLC

(***************************************************************************)
(* Bounds of the model.                                                    *)
(***************************************************************************)
\* The clock (Date.now()) runs from 0 to MaxClock.
MaxClock == 4
\* The number of start() calls that take effect (later ones are not made).
MaxEpoch == 2
\* In LiveSpec a timer or an awaited perform is at most this late.
MaxLate == 2
\* Inputs of the pure task functions in FnSpec.
MaxInterval == 3
MaxOffset == 3
MaxNow == 6

VARIABLES
    tasks,      \* this.tasks: a sequence of [interval, offset]; index = position - 1
    clock,      \* Date.now()
    isRunning,  \* this._isRunning
    queue,      \* this._queue: entries [time, index], kept in comparator order
    timers,     \* pending setTimeout callbacks: a bag of [now, cur]; cur marks
                \* the one this._timer refers to
    drains,     \* _perform calls suspended at the await: a bag of
                \* [now, time, index, prev, fired]; prev and fired are history:
                \* the entry the cycle performed before, Date.now() when its
                \* timer fired
    epoch,      \* history: the number of start() calls that took effect
    startClock, \* history: Date.now() read by the last effective start()
    lastOp,     \* history: the operation the last step ran
    performed,  \* history: the task.perform call the last step started (or {})
    lastPerf,   \* history: per task index, the last scheduled time performed
                \* in the current epoch (a set of at most one time)
    fnTask, fnNow, fnOut  \* FnSpec: a task, an input time, the function result

vars == <<tasks, clock, isRunning, queue, timers, drains, epoch, startClock,
          lastOp, performed, lastPerf, fnTask, fnNow, fnOut>>

schedVars == <<tasks, clock, isRunning, queue, timers, drains, epoch,
               startClock, lastOp, performed, lastPerf>>

fnVars == <<fnTask, fnNow, fnOut>>

(***************************************************************************)
(* The task contract.                                                      *)
(***************************************************************************)
\* JavaScript's % : the remainder has the sign of the dividend.
JsRem(a, b) == IF a >= 0 THEN a % b ELSE -((-a) % b)

\* A slip in Task.schedule: a time already on the grid is returned as it is.
ScheduleCeil(task, now) ==
    now + ((task.interval - JsRem(now - task.offset, task.interval))
           % task.interval)

\* Task.schedule(now)
Schedule(task, now) ==
    now + (task.interval - JsRem(now - task.offset, task.interval))

\* Task.scheduleIndex(time): the JavaScript quotient, kept as a fraction
ScheduleIndex(task, time) == [num |-> time - task.offset, den |-> task.interval]

(***************************************************************************)
(* The priority queue (FastPriorityQueue under the scheduler's comparator).*)
(***************************************************************************)
\* A slip in the comparator: ties go to the higher index.
LessHigherIndexFirst(a, b) ==
    a.time < b.time \/ (a.time = b.time /\ a.index > b.index)

\* The comparator given to FastPriorityQueue.
Less(a, b) == a.time < b.time \/ (a.time = b.time /\ a.index < b.index)

\* _queue.add(e)
QueueAdd(q, e) ==
    LET k == Cardinality({j \in 1..Len(q) : ~Less(e, q[j])})
    IN  SubSeq(q, 1, k) \o <<e>> \o SubSeq(q, k + 1, Len(q))

\* _queue.replaceTop(e): nothing happens on an empty queue
ReplaceTop(q, e) == IF q = <<>> THEN q ELSE QueueAdd(Tail(q), e)

\* _schedule(task, index, time)
ScheduleTask(q, index, time) == QueueAdd(q, [time |-> time, index |-> index])

\* the loop of start(): every task, by index, scheduled from `now`
RECURSIVE ScheduleAll(_, _, _, _)
ScheduleAll(q, ts, i, now) ==
    IF i > Len(ts) THEN q
    ELSE ScheduleAll(ScheduleTask(q, i - 1, Schedule(ts[i], now)), ts, i + 1, now)

(***************************************************************************)
(* Timers.                                                                 *)
(***************************************************************************)
One(x) == SetToBag({x})

\* The pending timers once this._timer is overwritten: none is `cur` any more.
Orphaned(ts) ==
    LET nows == {t.now : t \in BagToSet(ts)}
    IN  [t \in {[now |-> n, cur |-> FALSE] : n \in nows} |->
            CopiesIn(t, ts) + CopiesIn([now |-> t.now, cur |-> TRUE], ts)]

\* A slip in _setTimer: the callback is bound to Date.now(), not to the
\* top's time.
SetTimerBindsClock(ts, q) == Orphaned(ts) (+) One([now |-> clock, cur |-> TRUE])

\* A slip in _setTimer: no timer is armed.
SetTimerForgets(ts, q) == Orphaned(ts)

\* _setTimer() on a non-empty queue: the callback is bound to the top's time
SetTimer(ts, q) == Orphaned(ts) (+) One([now |-> q[1].time, cur |-> TRUE])

\* clearTimeout(this._timer): a fired or cleared timer is left alone
ClearTimer(ts) == [t \in {u \in BagToSet(ts) : ~u.cur} |-> ts[t]]

(***************************************************************************)
(* History of the perform calls.                                           *)
(***************************************************************************)
NoPrev == <<>>

\* the record of a call task.perform(now, time) of task `index`
PerformCall(now, e, prev) ==
    [now |-> now, time |-> e.time, index |-> e.index, prev |-> prev,
     clock |-> clock, running |-> isRunning, epoch |-> epoch,
     before |-> lastPerf[e.index]]

NotePerf(e) == [lastPerf EXCEPT ![e.index] = {e.time}]

(***************************************************************************)
(* Initial state: a constructed scheduler, not started.                    *)
(***************************************************************************)
TaskConfigs ==
    { <<>>,
      <<[interval |-> 2, offset |-> 0]>>,
      <<[interval |-> 2, offset |-> 0], [interval |-> 1, offset |-> 0]>>,
      <<[interval |-> 2, offset |-> 1], [interval |-> 2, offset |-> 1]>> }

FnIdle ==
    /\ fnTask = [interval |-> 1, offset |-> 0]
    /\ fnNow = 0
    /\ fnOut = {}

SchedInit ==
    /\ tasks \in TaskConfigs
    /\ clock = 0
    /\ isRunning = FALSE
    /\ queue = <<>>
    /\ timers = EmptyBag
    /\ drains = EmptyBag
    /\ epoch = 0
    /\ startClock = 0
    /\ lastOp = "new"
    /\ performed = {}
    /\ lastPerf = [i \in 0..(Len(tasks) - 1) |-> {}]

Init == SchedInit /\ FnIdle

(***************************************************************************)
(* start()                                                                 *)
(***************************************************************************)
\* A slip in start(): the `if (this._isRunning) return` is missing.
StartUnguarded ==
    /\ UNCHANGED fnVars
    /\ lastOp' = "start"
    /\ performed' = {}
    /\ UNCHANGED <<tasks, clock, drains>>
    /\ epoch < MaxEpoch
    /\ isRunning' = TRUE
    /\ epoch' = epoch + 1
    /\ startClock' = clock
    /\ lastPerf' = [i \in DOMAIN lastPerf |-> {}]
    /\ queue' = ScheduleAll(queue, tasks, 1, clock)
    /\ timers' = IF queue' = <<>> THEN timers ELSE SetTimer(timers, queue')

Start ==
    /\ UNCHANGED fnVars
    /\ lastOp' = "start"
    /\ performed' = {}
    /\ UNCHANGED <<tasks, clock, drains>>
    /\ IF isRunning
       THEN UNCHANGED <<isRunning, queue, timers, epoch, startClock, lastPerf>>
       ELSE /\ epoch < MaxEpoch
            /\ isRunning' = TRUE
            /\ epoch' = epoch + 1
            /\ startClock' = clock
            /\ lastPerf' = [i \in DOMAIN lastPerf |-> {}]
            /\ queue' = ScheduleAll(queue, tasks, 1, clock)
            \* _setTimer(): peek() of an empty queue is undefined and [0] throws
            /\ timers' = IF queue' = <<>> THEN timers ELSE SetTimer(timers, queue')

(***************************************************************************)
(* stop()                                                                  *)
(***************************************************************************)
\* A slip in stop(): the queue is not cleared.
StopKeepsQueue ==
    /\ UNCHANGED fnVars
    /\ lastOp' = "stop"
    /\ performed' = {}
    /\ UNCHANGED <<tasks, clock, drains, epoch, startClock, lastPerf, queue>>
    /\ IF ~isRunning
       THEN UNCHANGED <<isRunning, timers>>
       ELSE /\ timers' = ClearTimer(timers)
            /\ isRunning' = FALSE

Stop ==
    /\ UNCHANGED fnVars
    /\ lastOp' = "stop"
    /\ performed' = {}
    /\ UNCHANGED <<tasks, clock, drains, epoch, startClock, lastPerf>>
    /\ IF ~isRunning
       THEN UNCHANGED <<isRunning, queue, timers>>
       ELSE /\ timers' = ClearTimer(timers)
            /\ queue' = <<>>
            /\ isRunning' = FALSE

(***************************************************************************)
(* A timer fires: _perform(now) up to its first await.                     *)
(***************************************************************************)
TimerFire(t) ==
    /\ BagIn(t, timers)
    /\ clock >= t.now
    /\ UNCHANGED fnVars
    /\ lastOp' = "fire"
    /\ timers' = timers (-) One(t)
    /\ UNCHANGED <<tasks, clock, isRunning, queue, epoch, startClock>>
    /\ IF queue = <<>>
       THEN \* peek() is undefined: the destructuring throws
            /\ performed' = {}
            /\ UNCHANGED <<drains, lastPerf>>
       ELSE \* do { await task.perform(now, time) ...: the top is performed
            \* without a look at its time
            /\ performed' = {PerformCall(t.now, queue[1], NoPrev)}
            /\ lastPerf' = NotePerf(queue[1])
            /\ drains' = drains (+) One([now |-> t.now, time |-> queue[1].time,
                                         index |-> queue[1].index, prev |-> NoPrev,
                                         fired |-> clock])

(***************************************************************************)
(* An awaited perform resolves: _perform continues to its next await or    *)
(* to its end.                                                             *)
(***************************************************************************)
\* A slip in the reschedule: the entry is put back at its old time.
RescheduledInPlace(d) ==
    ReplaceTop(queue, [time |-> d.time, index |-> d.index])

\* time = task.schedule(time); this._queue.replaceTop([time, index, task])
Rescheduled(d) ==
    ReplaceTop(queue, [time |-> Schedule(tasks[d.index + 1], d.time),
                       index |-> d.index])

PerformComplete(d) ==
    /\ BagIn(d, drains)
    /\ UNCHANGED fnVars
    /\ lastOp' = "complete"
    /\ UNCHANGED <<tasks, clock, isRunning, epoch, startClock>>
    /\ queue' = Rescheduled(d)
    /\ IF queue' = <<>>
       THEN \* peek() is undefined: the destructuring throws
            /\ drains' = drains (-) One(d)
            /\ performed' = {}
            /\ UNCHANGED <<timers, lastPerf>>
       ELSE IF queue'[1].time <= d.now
       THEN \* while (time <= now): the next entry is performed
            LET prev == <<d.time, d.index>>
            IN  /\ performed' = {PerformCall(d.now, queue'[1], prev)}
                /\ lastPerf' = NotePerf(queue'[1])
                /\ drains' = (drains (-) One(d))
                             (+) One([now |-> d.now, time |-> queue'[1].time,
                                      index |-> queue'[1].index, prev |-> prev,
                                      fired |-> d.fired])
                /\ UNCHANGED timers
       ELSE \* the loop ends: _setTimer()
            /\ drains' = drains (-) One(d)
            /\ timers' = SetTimer(timers, queue')
            /\ performed' = {}
            /\ UNCHANGED lastPerf

(***************************************************************************)
(* An awaited perform rejects: the await throws out of _perform.           *)
(***************************************************************************)
PerformFail(d) ==
    /\ BagIn(d, drains)
    /\ UNCHANGED fnVars
    /\ lastOp' = "fail"
    /\ drains' = drains (-) One(d)
    /\ performed' = {}
    /\ UNCHANGED <<tasks, clock, isRunning, queue, timers, epoch, startClock,
                   lastPerf>>

(***************************************************************************)
(* Time passes.                                                            *)
(***************************************************************************)
Tick ==
    /\ clock < MaxClock
    /\ clock' = clock + 1
    /\ UNCHANGED fnVars
    /\ lastOp' = "tick"
    /\ performed' = {}
    /\ UNCHANGED <<tasks, isRunning, queue, timers, drains, epoch, startClock,
                   lastPerf>>

Fire == \E t \in BagToSet(timers) : TimerFire(t)
Complete == \E d \in BagToSet(drains) : PerformComplete(d)
Fail == \E d \in BagToSet(drains) : PerformFail(d)

Next ==
    \/ Start
    \/ Stop
    \/ Fire
    \/ Complete
    \/ Fail
    \/ Tick

Spec == Init /\ [][Next]_vars


(***************************************************************************)
(* RunSpec: the scheduler started once (and perhaps stopped), no perform   *)
(* failing.                                                                *)
(***************************************************************************)
RunStart == (isRunning \/ epoch = 0) /\ Start

RunNext ==
    \/ RunStart
    \/ Stop
    \/ Fire
    \/ Complete
    \/ Tick

RunSpec == Init /\ [][RunNext]_vars

(***************************************************************************)
(* LiveSpec: one run of the scheduler, never stopped, no perform failing.  *)
(* Time is kept in a finite window: the scheduler's behaviour is unchanged *)
(* when every time is moved back by a common multiple of the intervals     *)
(* (Schedule(task, t + P) = Schedule(task, t) + P for t >= task.offset), so*)
(* LiveTick moves the window when everything live is late enough in it.    *)
(***************************************************************************)
RECURSIVE Period(_)
Period(ts) == IF ts = <<>> THEN 1 ELSE Head(ts).interval * Period(Tail(ts))

RECURSIVE LargestOffset(_)
LargestOffset(ts) ==
    IF ts = <<>> THEN 0
    ELSE LET m == LargestOffset(Tail(ts))
         IN  IF Head(ts).offset > m THEN Head(ts).offset ELSE m

\* the times a pending timer or a suspended _perform was armed for
LiveNows == {t.now : t \in BagToSet(timers)} \cup {d.now : d \in BagToSet(drains)}

\* every time the scheduler will still compute with
LiveTimes ==
    LiveNows \cup {queue[k].time : k \in 1..Len(queue)}
             \cup {d.time : d \in BagToSet(drains)}

Back(x, p) == x - p

BackPrev(prev, p) == IF prev = NoPrev THEN prev ELSE <<prev[1] - p, prev[2]>>

BackTimers(ts, p) ==
    [t \in {[now |-> Back(u.now, p), cur |-> u.cur] : u \in BagToSet(ts)} |->
        ts[[now |-> t.now + p, cur |-> t.cur]]]

BackDrains(ds, p) ==
    [d \in {[now |-> Back(u.now, p), time |-> Back(u.time, p), index |-> u.index,
             prev |-> BackPrev(u.prev, p), fired |-> Back(u.fired, p)] :
                u \in BagToSet(ds)} |->
        ds[[now |-> d.now + p, time |-> d.time + p, index |-> d.index,
            prev |-> BackPrev(d.prev, 0 - p), fired |-> d.fired + p]]]

LiveTick ==
    /\ IF isRunning
       THEN LiveNows # {} /\ \A n \in LiveNows : clock + 1 - n <= MaxLate
       ELSE clock < MaxClock
    /\ UNCHANGED fnVars
    /\ lastOp' = "tick"
    /\ performed' = {}
    /\ UNCHANGED <<tasks, isRunning, epoch>>
    /\ LET p == Period(tasks)
           move == /\ isRunning
                   /\ clock + 1 >= p
                   /\ \A t \in LiveTimes : t >= p + LargestOffset(tasks)
       IN  IF move
           THEN /\ clock' = clock + 1 - p
                /\ queue' = [k \in 1..Len(queue) |->
                                [queue[k] EXCEPT !.time = Back(@, p)]]
                /\ timers' = BackTimers(timers, p)
                /\ drains' = BackDrains(drains, p)
                \* history older than the window is forgotten
                /\ startClock' = IF startClock >= p THEN startClock - p ELSE 0
                /\ lastPerf' = [i \in DOMAIN lastPerf |->
                                   {Back(t, p) : t \in {u \in lastPerf[i] : u >= p}}]
           ELSE /\ clock' = clock + 1
                /\ UNCHANGED <<queue, timers, drains, startClock, lastPerf>>

LiveNext ==
    \/ Start
    \/ Fire
    \/ Complete
    \/ LiveTick

\* Timers eventually fire, every perform eventually completes, time passes.
LiveSpec ==
    /\ Init
    /\ [][LiveNext]_vars
    /\ WF_vars(Fire)
    /\ WF_vars(Complete)
    /\ WF_vars(LiveTick)

(***************************************************************************)
(* FnSpec: the pure functions of the task contract on bounded inputs.      *)
(***************************************************************************)
SchedIdle ==
    /\ tasks = <<>>
    /\ clock = 0
    /\ isRunning = FALSE
    /\ queue = <<>>
    /\ timers = EmptyBag
    /\ drains = EmptyBag
    /\ epoch = 0
    /\ startClock = 0
    /\ lastOp = "new"
    /\ performed = {}
    /\ lastPerf = <<>>

FnInit ==
    /\ SchedIdle
    /\ fnTask \in [interval : 1..MaxInterval, offset : (0 - MaxOffset)..MaxOffset]
    /\ fnNow \in (0 - MaxNow)..MaxNow
    /\ fnOut = {}

\* task.schedule(now)
FnSchedule ==
    /\ UNCHANGED schedVars
    /\ fnOut = {}
    /\ fnOut' = {Schedule(fnTask, fnNow)}
    /\ UNCHANGED <<fnTask, fnNow>>

\* t1 = task.schedule(t0): schedule applied to its own output
FnReschedule ==
    /\ UNCHANGED schedVars
    /\ fnNow <= MaxNow
    /\ \E t0 \in fnOut :
           /\ fnNow' = t0
           /\ fnOut' = {Schedule(fnTask, t0)}
    /\ UNCHANGED fnTask

FnNext ==
    \/ FnSchedule
    \/ FnReschedule

FnSpec == FnInit /\ [][FnNext]_vars


(***************************************************************************)
(* The claims.                                                             *)
(***************************************************************************)
TaskIndexes == UNION {0..(Len(c) - 1) : c \in TaskConfigs}

KeyLess(a, b) == a[1] < b[1] \/ (a[1] = b[1] /\ a[2] < b[2])

\* the timers and suspended tick handlers of the instance
Threads == BagCardinality(timers) + BagCardinality(drains)

\* C1: within one drain cycle the entries are performed in ascending
\* (scheduledTime, taskIndex) order: a perform call never has a key below the
\* key of the call the same drain cycle made before it, so of two tasks tied
\* at one time the lower index goes first.
C1_DrainOrder ==
    \A p \in performed :
        p.prev # NoPrev => ~KeyLess(<<p.time, p.index>>, p.prev)

\* C1 witness: a drain cycle performs a task right after a task of a lower
\* index that was scheduled at the same time.
C1_Witness ==
    \E p \in performed :
        p.prev # NoPrev /\ p.prev[1] = p.time /\ p.prev[2] < p.index

\* C2: no entry is performed early: every perform call is for a scheduled time
\* that is not after the clock.
C2_NeverEarly == \A p \in performed : p.time <= p.clock

\* C3: the scheduled times of a task's successive perform calls (within one
\* run) go up by exactly the task's interval: no tick repeated, none skipped.
C3_NoDrift ==
    \A p \in performed :
        \A b \in p.before : p.time = b + tasks[p.index + 1].interval

\* C4: at most one perform call of the scheduler is in flight.
C4_OnePerformInFlight == BagCardinality(drains) <= 1

\* C5: with at least one task, once started (and never stopped, every timer
\* firing and every perform completing), every registered task is performed
\* again and again.
C5_EveryTaskPerformedAgain ==
    \A i \in TaskIndexes :
        (isRunning /\ i < Len(tasks)) ~> (\E p \in performed : p.index = i)

\* C5 witness: the task of index 1 is performed after it was performed before.
C5_Witness ==
    /\ isRunning
    /\ \E p \in performed : p.index = 1 /\ p.before # {}

\* C6: start() while running and stop() while not running leave the running
\* flag, the queue and the timers as they are.
C6_MatchingStateNoOp ==
    [][/\ (lastOp' = "start" /\ isRunning)
            => UNCHANGED <<isRunning, queue, timers>>
       /\ (lastOp' = "stop" /\ ~isRunning)
            => UNCHANGED <<isRunning, queue, timers>>]_vars

\* C6 witness: start() was called on a running scheduler, well after the
\* start() that took effect, with one entry per task in the queue.
C6_Witness ==
    /\ lastOp = "start"
    /\ isRunning
    /\ clock > startClock
    /\ tasks # <<>>
    /\ Len(queue) = Len(tasks)

\* C7: while the scheduler is not running (from stop() to the next start())
\* no perform call is started.
C7_NoPerformWhileStopped == \A p \in performed : p.running

\* C7 witness: a drain cycle that was awaiting a perform when stop() was
\* called has resumed while the scheduler is stopped.
C7_Witness == lastOp = "complete" /\ ~isRunning /\ epoch >= 1

\* C8: after a restart at clock c the queue holds one entry per task, each on
\* the task's schedule from schedule(c) on: nothing in the queue comes from a
\* scheduled time of before the stop().
C8_RestartRecomputes ==
    (isRunning /\ epoch >= 2) =>
        \A i \in 0..(Len(tasks) - 1) :
            /\ Cardinality({k \in 1..Len(queue) : queue[k].index = i}) = 1
            /\ \A k \in 1..Len(queue) :
                   queue[k].index = i =>
                       queue[k].time >= Schedule(tasks[i + 1], startClock)

\* C9: a failing perform does not end the run loop: the failing task is
\* rescheduled and the drain cycle goes on to its next perform or to arming
\* the next timer.
C9_FailureIsolated ==
    [][(lastOp' = "fail" /\ queue # <<>>)
           => (queue' # queue /\ Threads' = Threads)]_vars

\* C10: Task.schedule(now) is strictly greater than now, for every
\* interval > 0, offset and now (also now < offset).
C10_ScheduleAfterNow == \A r \in fnOut : r > fnNow

\* C10 witness: schedule was applied to a time before the offset.
C10_Witness == fnOut # {} /\ fnNow < fnTask.offset


\* (time - offset) mod interval == 0
OnGrid(task, time) == JsRem(time - task.offset, task.interval) = 0

\* the fractions a and b differ by exactly one: a - b = 1
IndexStep(a, b) == a.num * b.den - b.num * a.den = a.den * b.den

\* C11: Task.schedule(now) is the smallest time offset + k*interval that is
\* strictly greater than now, wherever now falls (also before the offset).
C11_NextGridBoundary ==
    \A r \in fnOut :
        /\ OnGrid(fnTask, r)
        /\ r > fnNow
        /\ r - fnTask.interval <= fnNow

\* C12: schedule(now) is on the grid, and schedule of a time t on the grid is
\* t + interval, one scheduleIndex further.
C12_OneGridStep ==
    \A r \in fnOut :
        /\ OnGrid(fnTask, r)
        /\ OnGrid(fnTask, fnNow) =>
               /\ r = fnNow + fnTask.interval
               /\ IndexStep(ScheduleIndex(fnTask, r), ScheduleIndex(fnTask, fnNow))

\* C12 witness: schedule was applied to its own output (a time past MaxNow can
\* only come from schedule), for a task with a non-zero offset.
C12_Witness ==
    /\ fnOut # {}
    /\ fnNow > MaxNow
    /\ fnTask.offset # 0
    /\ fnTask.interval > 1


\* C13: start() with no task registered is guarded: it leaves the scheduler
\* not running, with an empty queue and no timer.
C13_EmptyStartGuarded ==
    tasks = <<>> => (~isRunning /\ queue = <<>> /\ timers = EmptyBag)

\* C14: at most one timer of the scheduler is pending.
C14_OneTimerAtMost == BagCardinality(timers) <= 1

C16_NoTimerWhileStopped == ~isRunning => BagCardinality(timers) = 0

\* C17: the queue holds at most one entry per task index.
C17_OneEntryPerTask ==
    \A i \in TaskIndexes :
        Cardinality({k \in 1..Len(queue) : queue[k].index = i}) <= 1

\* C18: with at least one task registered, the queue is not empty whenever
\* the tick handler (on firing, and after each reschedule) or _setTimer peeks
\* it.
C18_NoUnderflow ==
    (tasks # <<>> /\ lastOp \in {"fire", "complete"}) => queue # <<>>

\* C19: when a drain cycle ends and arms the next timer, the earliest queue
\* entry is strictly later than the clock time at which the cycle's timer
\* fired: everything due by then was performed inside that cycle.
C19_CaughtUpWhenArming ==
    [][\A d \in BagToSet(drains) :
           (/\ lastOp' = "complete"
            /\ drains' = drains (-) One(d)
            /\ performed' = {}
            /\ queue' # <<>>)
               => queue'[1].time > d.fired]_vars

=============================================================================
